---------------------------- MODULE Spec2Model ----------------------------
(***************************************************************************)
(* Model of Python/server.py of unity-mcp: the module-level start-up       *)
(* (FastMCP creation, tool registration, mcp.run) and the async context    *)
(* manager server_lifespan that owns the module variable                   *)
(* _unity_connection.                                                      *)
(*                                                                         *)
(* Two specifications are given.  Spec is the program as written:          *)
(* mcp.run(transport='stdio') enters server_lifespan once.  SpecOverlap    *)
(* lets the host framework enter server_lifespan for several sessions      *)
(* whose active periods overlap on one event loop; all of them share       *)
(* _unity_connection.                                                      *)
(***************************************************************************)
EXTENDS Integers, Sequences, FiniteSets, TLC

\* ------------------------------------------------------------- bounds
\* Distinct connection objects get_unity_connection may hand out.
NumConns == 2
\* Lifespan runs the host framework may have in flight (SpecOverlap).
NumRuns == 2
\* Tool requests served by the body of one lifespan run.
MaxToolCalls == 2

\* ------------------------------------------------------------- values
\* Python's None (server.py:18 initialises _unity_connection with it).
None == 0
Conns == 1..NumConns
Runs == 1..NumRuns

\* mcp.run(transport='stdio') serves one session: one lifespan run.
StdioRuns == {1}

\* Outcomes of get_unity_connection() that are exceptions:
\* "Exception" is any subclass of Exception, "BaseException" one that is
\* not (KeyboardInterrupt, SystemExit).
ConnectErrors == {"Exception", "BaseException"}

\* Ways the body of `async with server_lifespan(...)` ends.
BodyExits == {"return", "raise", "cancel"}

VARIABLES
    mainpc,            \* position of the module-level code
    mcp,               \* the FastMCP object: "none" or "FastMCP"
    toolsRegistered,   \* number of register_all_tools(mcp) calls
    unity_connection,  \* the module variable _unity_connection
    pc,                \* pc[r]: position of lifespan run r
    bridge,            \* bridge[r]: the 'bridge' value run r yielded
    obtained,          \* obtained[r]: what get_unity_connection returned to r
    connErr,           \* connErr[r]: "none" or the kind of error it raised
    connectCalls,      \* connectCalls[r]: get_unity_connection calls by r
    yields,            \* yields[r]: number of times run r yielded
    toolCalls,         \* toolCalls[r]: tool requests served in r's body
    lastResult,        \* lastResult[r]: reply of the last tool request
    exitHow,           \* exitHow[r]: how the body ended ("none" before)
    disconnectCalls,   \* disconnectCalls[r]: connections r called disconnect() on
    closedBy,          \* closedBy[c]: the run whose disconnect() closed c since c
                       \* was last handed out, None while c is open
    outcome            \* outcome[r]: what reaches the caller of the lifespan

vars == <<mainpc, mcp, toolsRegistered, unity_connection, pc, bridge, obtained,
          connErr, connectCalls, yields, toolCalls, lastResult, exitHow,
          disconnectCalls, closedBy, outcome>>

mainVars == <<mainpc, mcp, toolsRegistered>>
bodyVars == <<toolCalls, lastResult>>

\* ------------------------------------------------------------- helpers
\* Python truthiness of `if _unity_connection:`; a UnityConnection object
\* is truthy, None is not.
Truthy(x) == x # None

\* Positions inside the synchronous sections of server_lifespan (no await
\* between them): the event loop runs no other coroutine meanwhile.
SyncPcs == {"try_connect", "yielding", "finally", "disconnect", "clear"}

\* Single-threaded event loop: run r is stepped only when no other run is
\* in the middle of a synchronous section.
Scheduled(r) == \A q \in Runs \ {r} : pc[q] \notin SyncPcs

\* What __aexit__ of the context manager delivers after the generator has
\* finished its finally block without raising.
ExitOutcome(how) ==
    CASE how = "return" -> "ok"
      [] how = "raise"  -> "BodyError"
      [] how = "cancel" -> "CancelledError"

\* ------------------------------------------------------------- initial state
Init ==
    /\ mainpc = "start"
    /\ mcp = "none"
    /\ toolsRegistered = 0
    /\ unity_connection = None
    /\ pc = [r \in Runs |-> "idle"]
    /\ bridge = [r \in Runs |-> None]
    /\ obtained = [r \in Runs |-> None]
    /\ connErr = [r \in Runs |-> "none"]
    /\ connectCalls = [r \in Runs |-> 0]
    /\ yields = [r \in Runs |-> 0]
    /\ toolCalls = [r \in Runs |-> 0]
    /\ lastResult = [r \in Runs |-> "none"]
    /\ exitHow = [r \in Runs |-> "none"]
    /\ disconnectCalls = [r \in Runs |-> <<>>]
    /\ closedBy = [c \in Conns |-> None]
    /\ outcome = [r \in Runs |-> "none"]

\* ------------------------------------------------------------- module level
runVars == <<unity_connection, pc, bridge, obtained, connErr, connectCalls,
             yields, toolCalls, lastResult, exitHow, disconnectCalls,
             closedBy, outcome>>

\* mcp = FastMCP("UnityMCP", ..., lifespan=server_lifespan)
CreateServer ==
    /\ mainpc = "start"
    /\ mcp' = "FastMCP"
    /\ mainpc' = "created"
    /\ UNCHANGED <<toolsRegistered, runVars>>

\* register_all_tools(mcp)
RegisterAllTools ==
    /\ mainpc = "created"
    /\ toolsRegistered' = toolsRegistered + 1
    /\ mainpc' = "registered"
    /\ UNCHANGED <<mcp, runVars>>

\* Variant of McpRun: the server is started right after its creation,
\* with the registration step placed after the (blocking) run call.
McpRunBeforeRegister ==
    /\ mainpc = "created"
    /\ mainpc' = "running"
    /\ UNCHANGED <<mcp, toolsRegistered, runVars>>

\* if __name__ == "__main__": mcp.run(transport='stdio')
McpRun ==
    /\ mainpc = "registered"
    /\ mainpc' = "running"
    /\ UNCHANGED <<mcp, toolsRegistered, runVars>>

\* ------------------------------------------------------------- server_lifespan
\* The framework enters the context manager: global statement and the
\* "starting up" log line.
EnterLifespan(r) ==
    /\ mainpc = "running"
    /\ pc[r] = "idle"
    /\ Scheduled(r)
    /\ pc' = [pc EXCEPT ![r] = "try_connect"]
    /\ UNCHANGED <<mainVars, unity_connection, bridge, obtained, connErr,
                   connectCalls, yields, bodyVars, exitHow, disconnectCalls,
                   closedBy, outcome>>

\* Variant of ConnectOk: the `global` statement is missing, so the result
\* is bound to a local name and the module variable keeps its value.
ConnectOkLocal(r, c) ==
    /\ pc[r] = "try_connect"
    /\ Scheduled(r)
    /\ connectCalls' = [connectCalls EXCEPT ![r] = @ + 1]
    /\ obtained' = [obtained EXCEPT ![r] = c]
    /\ closedBy' = [closedBy EXCEPT ![c] = None]
    /\ pc' = [pc EXCEPT ![r] = "yielding"]
    /\ UNCHANGED <<mainVars, unity_connection, bridge, connErr, yields,
                   bodyVars, exitHow, disconnectCalls, outcome>>

\* try: _unity_connection = get_unity_connection()   -- the call returns the
\* connection object c, connected to the editor.
ConnectOk(r, c) ==
    /\ pc[r] = "try_connect"
    /\ Scheduled(r)
    /\ connectCalls' = [connectCalls EXCEPT ![r] = @ + 1]
    /\ obtained' = [obtained EXCEPT ![r] = c]
    /\ unity_connection' = c
    /\ closedBy' = [closedBy EXCEPT ![c] = None]
    /\ pc' = [pc EXCEPT ![r] = "yielding"]
    /\ UNCHANGED <<mainVars, bridge, connErr, yields, bodyVars, exitHow,
                   disconnectCalls, outcome>>

\* Variant of ConnectRaise: no except clause, every error of
\* get_unity_connection leaves the generator before its yield.
ConnectRaiseNoCatch(r, kind) ==
    /\ pc[r] = "try_connect"
    /\ Scheduled(r)
    /\ connectCalls' = [connectCalls EXCEPT ![r] = @ + 1]
    /\ connErr' = [connErr EXCEPT ![r] = kind]
    /\ pc' = [pc EXCEPT ![r] = "done"]
    /\ outcome' = [outcome EXCEPT ![r] = kind]
    /\ UNCHANGED <<mainVars, unity_connection, bridge, obtained, yields,
                   bodyVars, exitHow, disconnectCalls, closedBy>>

\* Variant of ConnectRaise: the except clause calls get_unity_connection
\* a second time, and that call returns a connection.
ConnectRaiseRetry(r, kind) ==
    /\ pc[r] = "try_connect"
    /\ Scheduled(r)
    /\ connErr' = [connErr EXCEPT ![r] = kind]
    /\ IF kind = "Exception"
         THEN /\ connectCalls' = [connectCalls EXCEPT ![r] = @ + 2]
              /\ \E c \in Conns :
                    /\ unity_connection' = c
                    /\ closedBy' = [closedBy EXCEPT ![c] = None]
              /\ pc' = [pc EXCEPT ![r] = "yielding"]
              /\ UNCHANGED outcome
         ELSE /\ connectCalls' = [connectCalls EXCEPT ![r] = @ + 1]
              /\ pc' = [pc EXCEPT ![r] = "done"]
              /\ outcome' = [outcome EXCEPT ![r] = kind]
              /\ UNCHANGED <<unity_connection, closedBy>>
    /\ UNCHANGED <<mainVars, bridge, obtained, yields, bodyVars, exitHow,
                   disconnectCalls>>

\* Variant of ConnectRaise: the except clause stores a placeholder
\* connection object instead of None.
ConnectRaiseFallback(r, kind) ==
    /\ pc[r] = "try_connect"
    /\ Scheduled(r)
    /\ connectCalls' = [connectCalls EXCEPT ![r] = @ + 1]
    /\ connErr' = [connErr EXCEPT ![r] = kind]
    /\ IF kind = "Exception"
         THEN /\ \E c \in Conns : unity_connection' = c
              /\ pc' = [pc EXCEPT ![r] = "yielding"]
              /\ UNCHANGED outcome
         ELSE /\ pc' = [pc EXCEPT ![r] = "done"]
              /\ outcome' = [outcome EXCEPT ![r] = kind]
              /\ UNCHANGED unity_connection
    /\ UNCHANGED <<mainVars, bridge, obtained, yields, bodyVars, exitHow,
                   disconnectCalls, closedBy>>

\* try: get_unity_connection() raises; `except Exception` handles kind
\* "Exception" (warning, _unity_connection = None) and lets any other
\* BaseException leave the generator before its yield.
ConnectRaise(r, kind) ==
    /\ pc[r] = "try_connect"
    /\ Scheduled(r)
    /\ connectCalls' = [connectCalls EXCEPT ![r] = @ + 1]
    /\ connErr' = [connErr EXCEPT ![r] = kind]
    /\ IF kind = "Exception"
         THEN /\ unity_connection' = None
              /\ pc' = [pc EXCEPT ![r] = "yielding"]
              /\ UNCHANGED outcome
         ELSE /\ pc' = [pc EXCEPT ![r] = "done"]
              /\ outcome' = [outcome EXCEPT ![r] = kind]
              /\ UNCHANGED unity_connection
    /\ UNCHANGED <<mainVars, bridge, obtained, yields, bodyVars, exitHow,
                   disconnectCalls, closedBy>>

\* Variant of Yield: the yielded value is a fresh call,
\* yield {"bridge": get_unity_connection()}.
YieldReconnect(r) ==
    /\ pc[r] = "yielding"
    /\ Scheduled(r)
    /\ connectCalls' = [connectCalls EXCEPT ![r] = @ + 1]
    /\ \E c \in Conns : bridge' = [bridge EXCEPT ![r] = c]
    /\ yields' = [yields EXCEPT ![r] = @ + 1]
    /\ pc' = [pc EXCEPT ![r] = "active"]
    /\ UNCHANGED <<mainVars, unity_connection, obtained, connErr, bodyVars,
                   exitHow, disconnectCalls, closedBy, outcome>>

\* Variant of Yield: the generator returns without yielding when there is
\* no connection.
YieldOnlyIfConnected(r) ==
    /\ pc[r] = "yielding"
    /\ Scheduled(r)
    /\ IF Truthy(unity_connection)
         THEN /\ bridge' = [bridge EXCEPT ![r] = unity_connection]
              /\ yields' = [yields EXCEPT ![r] = @ + 1]
              /\ pc' = [pc EXCEPT ![r] = "active"]
              /\ UNCHANGED outcome
         ELSE /\ pc' = [pc EXCEPT ![r] = "done"]
              /\ outcome' = [outcome EXCEPT ![r] = "RuntimeError"]
              /\ UNCHANGED <<bridge, yields>>
    /\ UNCHANGED <<mainVars, unity_connection, obtained, connErr, connectCalls,
                   bodyVars, exitHow, disconnectCalls, closedBy>>

\* yield {"bridge": _unity_connection}
Yield(r) ==
    /\ pc[r] = "yielding"
    /\ Scheduled(r)
    /\ bridge' = [bridge EXCEPT ![r] = unity_connection]
    /\ yields' = [yields EXCEPT ![r] = @ + 1]
    /\ pc' = [pc EXCEPT ![r] = "active"]
    /\ UNCHANGED <<mainVars, unity_connection, obtained, connErr, connectCalls,
                   bodyVars, exitHow, disconnectCalls, closedBy, outcome>>

\* The body serves one tool request through ctx.bridge: the request is
\* shuttled to the editor and the reply, or the error, goes back verbatim.
ToolCall(r, reply) ==
    /\ pc[r] = "active"
    /\ Scheduled(r)
    /\ toolCalls[r] < MaxToolCalls
    /\ toolCalls' = [toolCalls EXCEPT ![r] = @ + 1]
    /\ lastResult' = [lastResult EXCEPT ![r] =
                        IF bridge[r] = None THEN "connection unavailable"
                                            ELSE reply]
    /\ UNCHANGED <<mainVars, unity_connection, pc, bridge, obtained, connErr,
                   connectCalls, yields, exitHow, disconnectCalls,
                   closedBy, outcome>>

\* Variant of BodyExit: the teardown follows the yield without try/finally,
\* so it runs only when the body returns normally.
BodyExitNoFinally(r, how) ==
    /\ pc[r] = "active"
    /\ Scheduled(r)
    /\ exitHow' = [exitHow EXCEPT ![r] = how]
    /\ IF how = "return"
         THEN /\ pc' = [pc EXCEPT ![r] = "finally"]
              /\ UNCHANGED outcome
         ELSE /\ pc' = [pc EXCEPT ![r] = "done"]
              /\ outcome' = [outcome EXCEPT ![r] = ExitOutcome(how)]
    /\ UNCHANGED <<mainVars, unity_connection, bridge, obtained, connErr,
                   connectCalls, yields, bodyVars, disconnectCalls, closedBy>>

\* The body ends (returns, raises, or is cancelled); the generator is
\* resumed, or thrown into, at the yield and enters `finally:`.
BodyExit(r, how) ==
    /\ pc[r] = "active"
    /\ Scheduled(r)
    /\ exitHow' = [exitHow EXCEPT ![r] = how]
    /\ pc' = [pc EXCEPT ![r] = "finally"]
    /\ UNCHANGED <<mainVars, unity_connection, bridge, obtained, connErr,
                   connectCalls, yields, bodyVars, disconnectCalls,
                   closedBy, outcome>>

\* finally: `if _unity_connection:` is false; log "shut down" and leave.
ShutdownSkip(r) ==
    /\ pc[r] = "finally"
    /\ Scheduled(r)
    /\ ~Truthy(unity_connection)
    /\ pc' = [pc EXCEPT ![r] = "done"]
    /\ outcome' = [outcome EXCEPT ![r] = ExitOutcome(exitHow[r])]
    /\ UNCHANGED <<mainVars, unity_connection, bridge, obtained, connErr,
                   connectCalls, yields, bodyVars, exitHow, disconnectCalls,
                   closedBy>>

\* finally: `if _unity_connection:` is true; take the branch.
ShutdownTest(r) ==
    /\ pc[r] = "finally"
    /\ Scheduled(r)
    /\ Truthy(unity_connection)
    /\ pc' = [pc EXCEPT ![r] = "disconnect"]
    /\ UNCHANGED <<mainVars, unity_connection, bridge, obtained, connErr,
                   connectCalls, yields, bodyVars, exitHow, disconnectCalls,
                   closedBy, outcome>>

\* _unity_connection.disconnect(); when the call raises, the exception
\* leaves the finally block: the assignment and the log line are skipped.
Disconnect(r, raises) ==
    /\ pc[r] = "disconnect"
    /\ Scheduled(r)
    /\ disconnectCalls' = [disconnectCalls EXCEPT ![r] = Append(@, unity_connection)]
    /\ closedBy' = [closedBy EXCEPT ![unity_connection] = r]
    /\ IF raises
         THEN /\ pc' = [pc EXCEPT ![r] = "done"]
              /\ outcome' = [outcome EXCEPT ![r] = "DisconnectError"]
         ELSE /\ pc' = [pc EXCEPT ![r] = "clear"]
              /\ UNCHANGED outcome
    /\ UNCHANGED <<mainVars, unity_connection, bridge, obtained, connErr,
                   connectCalls, yields, bodyVars, exitHow>>

\* _unity_connection = None; log "shut down"; the generator finishes and
\* the context manager returns, or re-raises what the body raised.
Clear(r) ==
    /\ pc[r] = "clear"
    /\ Scheduled(r)
    /\ unity_connection' = None
    /\ pc' = [pc EXCEPT ![r] = "done"]
    /\ outcome' = [outcome EXCEPT ![r] = ExitOutcome(exitHow[r])]
    /\ UNCHANGED <<mainVars, bridge, obtained, connErr, connectCalls, yields,
                   bodyVars, exitHow, disconnectCalls, closedBy>>

\* ------------------------------------------------------------- specifications
Lifespan(r) ==
    \/ EnterLifespan(r)
    \/ \E c \in Conns : ConnectOk(r, c)
    \/ \E kind \in ConnectErrors : ConnectRaise(r, kind)
    \/ Yield(r)
    \/ \E reply \in {"ok", "remote call failed"} : ToolCall(r, reply)
    \/ \E how \in BodyExits : BodyExit(r, how)
    \/ ShutdownSkip(r)
    \/ ShutdownTest(r)
    \/ \E raises \in BOOLEAN : Disconnect(r, raises)
    \/ Clear(r)

Next ==
    \/ CreateServer
    \/ RegisterAllTools
    \/ McpRun
    \/ \E r \in StdioRuns : Lifespan(r)

Spec == Init /\ [][Next]_vars

NextOverlap ==
    \/ CreateServer
    \/ RegisterAllTools
    \/ McpRun
    \/ \E r \in Runs : Lifespan(r)

SpecOverlap == Init /\ [][NextOverlap]_vars

\* ------------------------------------------------------------- properties
\* Positions of a run after its start-up try statement has completed.
AfterStartup == {"yielding", "active", "finally", "disconnect", "clear", "done"}
\* Positions of a run after its yield.
AfterYield == {"active", "finally", "disconnect", "clear"}
\* Positions of a run before its finally block is entered.
BeforeFinally == {"idle", "try_connect", "yielding", "active"}

\* C1: within one run of server_lifespan, get_unity_connection is invoked
\* exactly once; the invocation precedes the yield, and no later step up to
\* the end of shutdown invokes it again.
C1_ConnectExactlyOnce ==
    \A r \in Runs :
        /\ connectCalls[r] <= 1
        /\ pc[r] \in {"idle", "try_connect"} => connectCalls[r] = 0
        /\ pc[r] \in AfterStartup => connectCalls[r] = 1
        /\ yields[r] > 0 => connectCalls[r] = 1

C1_Witness ==
    \E r \in Runs :
        /\ pc[r] = "done"
        /\ yields[r] = 1
        /\ disconnectCalls[r] # <<>>
        /\ connectCalls[r] = 1

\* C2: when start-up obtained a connection, disconnect() is called on that
\* connection exactly once when the lifespan exits, whether the body
\* returned, raised or was cancelled, and never before the body finished.
C2_DisconnectOnceOnExit ==
    \A r \in Runs :
        obtained[r] # None =>
            /\ pc[r] \in BeforeFinally => disconnectCalls[r] = <<>>
            /\ pc[r] \in {"clear", "done"} => disconnectCalls[r] = <<obtained[r]>>
            /\ Len(disconnectCalls[r]) <= 1
            /\ pc[r] = "finally" => ENABLED ShutdownTest(r)

C2_Witness ==
    \E r \in Runs :
        /\ pc[r] = "done"
        /\ exitHow[r] = "cancel"
        /\ obtained[r] # None
        /\ disconnectCalls[r] = <<obtained[r]>>

\* C3 as stated: when get_unity_connection raises during start-up, that
\* same exception reaches the caller of the lifespan.
C3_ConnectErrorSurfaced ==
    \A r \in Runs :
        connErr[r] # "none" => /\ pc[r] = "done"
                               /\ outcome[r] = connErr[r]

\* C3 as amended: an Exception raised by get_unity_connection is caught
\* by server_lifespan and never reaches its caller; the run goes on to its
\* yield.  Only an error that is not an Exception leaves the lifespan, and
\* it does so unchanged.
C3_ConnectExceptionSwallowed ==
    \A r \in Runs :
        /\ connErr[r] = "Exception" =>
              /\ outcome[r] # "Exception"
              /\ pc[r] \in AfterStartup
              /\ pc[r] = "done" => yields[r] = 1
        /\ connErr[r] = "BaseException" =>
              /\ pc[r] = "done"
              /\ outcome[r] = "BaseException"
              /\ yields[r] = 0

C3_Witness ==
    \E r \in Runs :
        /\ connErr[r] = "Exception"
        /\ pc[r] = "done"
        /\ outcome[r] = "ok"

\* C4 as stated: between the yield and the start of shutdown the yielded
\* 'bridge' is the connection returned by get_unity_connection, is never
\* None, and is identical to _unity_connection.
C4_BridgeEstablished ==
    \A r \in Runs :
        pc[r] = "active" =>
            /\ bridge[r] # None
            /\ bridge[r] = obtained[r]
            /\ bridge[r] = unity_connection

\* C4 as amended: between the yield and the start of shutdown the yielded
\* 'bridge' is identical to _unity_connection; it is the connection
\* returned by get_unity_connection when that call returned, and None
\* when that call raised an Exception.
C4_BridgeIsModuleVariable ==
    \A r \in Runs :
        pc[r] = "active" =>
            /\ bridge[r] = unity_connection
            /\ bridge[r] = obtained[r]
            /\ connErr[r] = "none" => bridge[r] \in Conns
            /\ connErr[r] = "Exception" => bridge[r] = None

C4_Witness ==
    \E r \in Runs :
        /\ pc[r] = "active"
        /\ connErr[r] = "Exception"
        /\ bridge[r] = None
        /\ lastResult[r] = "connection unavailable"

\* C5: once get_unity_connection has failed at start-up, no later step of
\* the run connects again, and _unity_connection and the yielded 'bridge'
\* stay None until the lifespan has ended.
C5_NoRetry ==
    \A r \in Runs :
        connErr[r] # "none" =>
            /\ connectCalls[r] = 1
            /\ obtained[r] = None
            /\ unity_connection = None
            /\ bridge[r] = None

C5_Witness ==
    \E r \in Runs :
        /\ connErr[r] = "Exception"
        /\ pc[r] = "done"
        /\ toolCalls[r] > 0
        /\ unity_connection = None

\* C6: register_all_tools runs exactly once, after the server object is
\* created and before the server runs, hence before any connection attempt,
\* and it has run whether or not the connection attempt succeeds.
C6_RegisterOnceBeforeRun ==
    /\ toolsRegistered <= 1
    /\ toolsRegistered = 1 => mcp = "FastMCP"
    /\ mainpc \in {"start", "created"} => toolsRegistered = 0
    /\ mainpc = "running" => toolsRegistered = 1
    /\ \A r \in Runs :
          (pc[r] # "idle" \/ connectCalls[r] > 0) => toolsRegistered = 1

C6_Witness ==
    /\ toolsRegistered = 1
    /\ \E r \in Runs : connErr[r] # "none"
    /\ \E r \in Runs : pc[r] = "done"

\* C7: server_lifespan yields exactly once on every start-up path on which
\* get_unity_connection returns or raises an Exception: the run never ends
\* without having yielded, and the yield is never blocked.
C7_YieldsExactlyOnce ==
    \A r \in Runs :
        /\ yields[r] <= 1
        /\ connErr[r] # "BaseException" =>
              /\ pc[r] \in AfterYield \cup {"done"} => yields[r] = 1
              /\ pc[r] = "yielding" => ENABLED Yield(r)

C7_Witness ==
    \E r \in Runs :
        /\ connErr[r] = "Exception"
        /\ pc[r] = "active"
        /\ yields[r] = 1

\* C8: after server_lifespan has exited, by any path, including one where
\* disconnect() raises, _unity_connection is None.
C8_NoneAfterExit ==
    \A r \in Runs : pc[r] = "done" => unity_connection = None

\* C9: disconnect() is never invoked in a run whose start-up connection
\* attempt failed; its shutdown leaves _unity_connection None.
C9_NoDisconnectAfterFailedConnect ==
    \A r \in Runs :
        connErr[r] # "none" =>
            /\ disconnectCalls[r] = <<>>
            /\ pc[r] \notin {"disconnect", "clear"}
            /\ pc[r] = "done" => unity_connection = None

C9_Witness ==
    \E r \in Runs :
        /\ connErr[r] = "Exception"
        /\ pc[r] = "done"
        /\ exitHow[r] = "raise"
        /\ disconnectCalls[r] = <<>>

\* C10: when runs overlap, the connection yielded as 'bridge' to a run that
\* is still active has not been disconnected by another run's shutdown, and
\* once all runs have exited every connection a run obtained has been
\* disconnected.
C10_OverlapSafe ==
    /\ \A r \in Runs :
          (pc[r] = "active" /\ bridge[r] # None) =>
              closedBy[bridge[r]] \notin (Runs \ {r})
    /\ (\A r \in Runs : pc[r] = "done") =>
          \A r \in Runs : obtained[r] # None => closedBy[obtained[r]] # None

\* C11: an exception raised in the body while the lifespan is active
\* reaches the caller of server_lifespan unchanged once teardown has run:
\* shutdown neither suppresses it nor replaces it by another exception.
C11_BodyExceptionDelivered ==
    \A r \in Runs :
        (pc[r] = "done" /\ exitHow[r] = "raise") => outcome[r] = "BodyError"

=============================================================================
